---- MODULE Spec2Model ----
(***************************************************************************)
(* Model of MySQLConnectionPool (src/mysql.py): the idle queue, the        *)
(* current_connections counter, the RLock guarding it, the backend         *)
(* sessions, and the threads calling get_connection, release_connection    *)
(* and close_all_connections.                                              *)
(***************************************************************************)
EXTENDS Integers, Sequences, FiniteSets, TLC

\* ---- bounds of the model ----
NumThreads == 2
MaxConns == 3
MaxMax == 2
MaxMin == 2

Threads == 1..NumThreads
Conns == 1..MaxConns
NoConn == 0
NoThread == 0

VARIABLES
  min_connections,      \* self.min_connections
  max_connections,      \* self.max_connections
  current_connections,  \* self.current_connections
  connection_queue,     \* self.connection_queue (Queue(maxsize=max_connections))
  lock,                 \* holder of self.lock, NoThread when free
  status,               \* backend state of each session: none/open/broken/closed
  init_i,               \* loop index of _initialize_pool
  init_conn,            \* session created by warm-up and not yet put
  pc,                   \* position of each thread
  conn,                 \* local variable `connection` of release_connection
  held,                 \* sessions checked out by each caller
  result,               \* outcome of the last completed get_connection
  discarded,            \* whether that call's last step discarded a stale session
  last_op,              \* the pool call that completed in the last step, if any
  faulty,               \* whether the backend may refuse connections and drop sessions
  scope,                \* position of each thread in execute_update / connection()
  scope_conn,           \* `conn` bound by `with self.connection() as conn`
  outcome,              \* what the thread's execute_update returned or raised
  tx,                   \* commit / rollback issued by the thread's execute_update
  releases              \* release_connection calls made by the thread's connection()

vars == <<min_connections, max_connections, current_connections,
          connection_queue, lock, status, init_i, init_conn,
          pc, conn, held, result, discarded, last_op, faulty,
          scope, scope_conn, outcome, tx, releases>>

poolvars == <<min_connections, max_connections, init_i, init_conn>>

callvars == <<scope, scope_conn, outcome, tx, releases>>

\* ---- helpers ----

\* the factory can open a session as long as an unused id is left
CanCreate == \E s \in Conns : status[s] = "none"

NewConn == CHOOSE s \in Conns : status[s] = "none" /\ \A r \in Conns : status[r] = "none" => s <= r

\* what pymysql.connect can do: succeed, or (on a faulty backend) raise
FactoryOutcomes == IF faulty THEN BOOLEAN ELSE {TRUE}

\* a probe that rejects every session
IsConnectionValidNever(c) == FALSE

\* _is_connection_valid: ping succeeds only on an open, live session
IsConnectionValid(c) == status[c] = "open"

\* Queue.put blocks while the queue holds maxsize items
QueueFull(q) == Len(q) >= max_connections

\* Queue.get removes the head
DequeuePeek(q) == q

Dequeue(q) == Tail(q)

\* connection.close()
CloseNoop(st, c) == st

Close(st, c) == [st EXCEPT ![c] = "closed"]

\* pymysql.connect succeeded: a new open session
Open(st, c) == [st EXCEPT ![c] = "open"]

\* growth check of get_connection
CanGrowOffByOne == current_connections <= max_connections

CanGrowBelowMin == current_connections < min_connections

CanGrow == current_connections < max_connections

\* the timed get gives up only when the queue is empty
TimedOutNever(q) == FALSE

\* variant: the timed get gives up although a session is idle
TimedOutAnytime(q) == TRUE

\* Queue.get(block=True, timeout=...) raises Empty only on an empty queue
TimedOut(q) == q = <<>>

\* get_connection returns session c to caller t; inside connection() the
\* session is bound to `conn` and yielded to the body of the with block
Return(t, c, d) ==
  /\ held' = [held EXCEPT ![t] = @ \cup {c}]
  /\ result' = "ok"
  /\ discarded' = d
  /\ pc' = [pc EXCEPT ![t] = "idle"]
  /\ scope' = [scope EXCEPT ![t] = IF @ = "acquire" THEN "execute" ELSE @]
  /\ scope_conn' = [scope_conn EXCEPT ![t] = IF scope[t] = "acquire" THEN c ELSE @]
  /\ UNCHANGED <<outcome, tx, releases>>

\* a get_connection that raises the wrong error kind
RaiseExhausted(t, e, d) ==
  /\ result' = "PoolExhaustedError"
  /\ discarded' = d
  /\ pc' = [pc EXCEPT ![t] = "idle"]
  /\ scope' = [scope EXCEPT ![t] = IF @ = "acquire" THEN "done" ELSE @]
  /\ outcome' = [outcome EXCEPT ![t] = IF scope[t] = "acquire" THEN "acquire_error" ELSE @]
  /\ UNCHANGED <<held, scope_conn, tx, releases>>

\* get_connection raises error e to caller t; execute_update wraps it in
\* UpdateError (except Exception, lines 432-435)
Raise(t, e, d) ==
  /\ result' = e
  /\ discarded' = d
  /\ pc' = [pc EXCEPT ![t] = "idle"]
  /\ scope' = [scope EXCEPT ![t] = IF @ = "acquire" THEN "done" ELSE @]
  /\ outcome' = [outcome EXCEPT ![t] = IF scope[t] = "acquire" THEN "acquire_error" ELSE @]
  /\ UNCHANGED <<held, scope_conn, tx, releases>>

\* release_connection returns to its caller; in connection() that ends the
\* finally block
ReleaseReturn(t) ==
  /\ pc' = [pc EXCEPT ![t] = "idle"]
  /\ scope' = [scope EXCEPT ![t] = IF @ = "releasing" THEN "done" ELSE @]
  /\ UNCHANGED <<scope_conn, outcome, tx, releases>>

\* an exception of connection.close() that escapes release_connection
CloseErrorEscapes(close_ok) == IF close_ok THEN "discarded" ELSE "release_raised"

\* try: connection.close() except: pass
CloseErrorSwallowed(close_ok) == IF close_ok THEN "discarded" ELSE "discarded_close_failed"

Constructed == init_i = min_connections /\ init_conn = NoConn

\* ---- construction ----

InitPool ==
  /\ min_connections \in 0..MaxMin
  /\ max_connections \in 1..MaxMax
  /\ current_connections = 0
  /\ connection_queue = <<>>
  /\ lock = NoThread
  /\ status = [s \in Conns |-> "none"]
  /\ init_i = 0
  /\ init_conn = NoConn
  /\ pc = [t \in Threads |-> "idle"]
  /\ conn = [t \in Threads |-> NoConn]
  /\ held = [t \in Threads |-> {}]
  /\ result = "none"
  /\ discarded = FALSE
  /\ last_op = "other"
  /\ scope_conn = [t \in Threads |-> NoConn]
  /\ outcome = [t \in Threads |-> "none"]
  /\ tx = [t \in Threads |-> "none"]
  /\ releases = [t \in Threads |-> 0]

\* threads call get_connection, release_connection and close_all_connections
Init ==
  /\ InitPool
  /\ faulty = TRUE
  /\ scope = [t \in Threads |-> "none"]

\* _initialize_pool, one iteration: self._create_connection()
InitCreate ==
  /\ init_i < min_connections
  /\ init_conn = NoConn
  /\ \E ok \in FactoryOutcomes :
       IF ok /\ CanCreate
       THEN /\ status' = Open(status, NewConn)
            /\ init_conn' = NewConn
            /\ UNCHANGED init_i
       ELSE /\ init_i' = init_i + 1
            /\ UNCHANGED <<status, init_conn>>
  /\ last_op' = "other"
  /\ UNCHANGED <<min_connections, max_connections, current_connections,
                 connection_queue, lock, pc, conn, held, result, discarded,
                 faulty, callvars>>

\* _initialize_pool: self.connection_queue.put(connection); counter += 1
InitPut ==
  /\ init_conn # NoConn
  /\ ~QueueFull(connection_queue)
  /\ connection_queue' = Append(connection_queue, init_conn)
  /\ current_connections' = current_connections + 1
  /\ init_i' = init_i + 1
  /\ init_conn' = NoConn
  /\ last_op' = "other"
  /\ UNCHANGED <<min_connections, max_connections, lock, status,
                 pc, conn, held, result, discarded, faulty, callvars>>

\* ---- environment: the server drops a session ----
Break(s) ==
  /\ faulty
  /\ status[s] = "open"
  /\ status' = [status EXCEPT ![s] = "broken"]
  /\ last_op' = "other"
  /\ UNCHANGED <<poolvars, current_connections, connection_queue, lock,
                 pc, conn, held, result, discarded, faulty, callvars>>

\* ---- get_connection ----

\* step 1: connection_queue.get(block=False), probe, replace if invalid
GetNoWait(t) ==
  /\ Constructed
  /\ pc[t] = "idle"
  /\ scope[t] \in {"none", "acquire"}
  /\ IF connection_queue = <<>>
     THEN /\ pc' = [pc EXCEPT ![t] = "lock"]
          /\ UNCHANGED <<connection_queue, status, held, result, discarded, callvars>>
     ELSE LET c == Head(connection_queue) IN
          /\ connection_queue' = Dequeue(connection_queue)
          /\ IF IsConnectionValid(c)
             THEN Return(t, c, FALSE) /\ UNCHANGED status
             ELSE \E ok \in FactoryOutcomes :
                    IF ok /\ CanCreate
                    THEN /\ status' = Open(Close(status, c), NewConn)
                         /\ Return(t, NewConn, TRUE)
                    ELSE /\ status' = Close(status, c)
                         /\ pc' = [pc EXCEPT ![t] = "lock"]
                         /\ UNCHANGED <<held, result, discarded, callvars>>
  /\ last_op' = "other"
  /\ UNCHANGED <<poolvars, current_connections, lock, conn, faulty>>

\* step 2, except Exception: with self.lock: grow when below max_connections
GetGrow(t) ==
  /\ pc[t] = "lock"
  /\ lock = NoThread
  /\ IF CanGrow
     THEN \E ok \in FactoryOutcomes :
            IF ok /\ CanCreate
            THEN /\ status' = Open(status, NewConn)
                 /\ current_connections' = current_connections + 1
                 /\ Return(t, NewConn, FALSE)
            ELSE /\ Raise(t, "ConnectionError", FALSE)
                 /\ UNCHANGED <<status, current_connections>>
     ELSE /\ pc' = [pc EXCEPT ![t] = "wait"]
          /\ UNCHANGED <<status, current_connections, held, result, discarded, callvars>>
  /\ last_op' = "other"
  /\ UNCHANGED <<poolvars, connection_queue, lock, conn, faulty>>

\* step 3: connection_queue.get(block=True, timeout=...) obtains a session
GetWait(t) ==
  /\ pc[t] = "wait"
  /\ connection_queue # <<>>
  /\ LET c == Head(connection_queue) IN
     /\ connection_queue' = Dequeue(connection_queue)
     /\ IF IsConnectionValid(c)
        THEN Return(t, c, FALSE) /\ UNCHANGED status
        ELSE \E ok \in FactoryOutcomes :
               IF ok /\ CanCreate
               THEN /\ status' = Open(Close(status, c), NewConn)
                    /\ Return(t, NewConn, TRUE)
               ELSE /\ status' = Close(status, c)
                    /\ Raise(t, "PoolExhaustedError", TRUE)
  /\ last_op' = "other"
  /\ UNCHANGED <<poolvars, current_connections, lock, conn, faulty>>

\* step 3: the timed get raises Empty
GetTimeout(t) ==
  /\ pc[t] = "wait"
  /\ TimedOut(connection_queue)
  /\ Raise(t, "PoolExhaustedError", FALSE)
  /\ last_op' = "other"
  /\ UNCHANGED <<poolvars, current_connections, connection_queue, lock,
                 status, conn, faulty>>

\* ---- release_connection ----

\* if self._is_connection_valid(connection); called by a caller on a session
\* it holds, or by the finally block of connection() on `conn`
ReleaseProbe(t, c) ==
  /\ Constructed
  /\ pc[t] = "idle"
  /\ c \in held[t]
  /\ scope[t] = "none" \/ (scope[t] = "release" /\ c = scope_conn[t])
  /\ held' = [held EXCEPT ![t] = @ \ {c}]
  /\ conn' = [conn EXCEPT ![t] = c]
  /\ pc' = [pc EXCEPT ![t] = IF IsConnectionValid(c) THEN "put" ELSE "rel_lock"]
  /\ scope' = [scope EXCEPT ![t] = IF @ = "release" THEN "releasing" ELSE @]
  /\ releases' = [releases EXCEPT ![t] = IF scope[t] = "release" THEN @ + 1 ELSE @]
  /\ last_op' = "other"
  /\ UNCHANGED <<poolvars, current_connections, connection_queue, lock,
                 status, result, discarded, faulty, scope_conn, outcome, tx>>

\* self.connection_queue.put(connection)
ReleasePut(t) ==
  /\ pc[t] = "put"
  /\ ~QueueFull(connection_queue)
  /\ connection_queue' = Append(connection_queue, conn[t])
  /\ conn' = [conn EXCEPT ![t] = NoConn]
  /\ ReleaseReturn(t)
  /\ last_op' = "released"
  /\ UNCHANGED <<poolvars, current_connections, lock, status, held, result,
                 discarded, faulty>>

\* variant: the discard branch forgets the counter
CounterAfterDiscardKept == current_connections

\* self.current_connections -= 1
CounterAfterDiscard == current_connections - 1

\* else: with self.lock: self.current_connections -= 1
ReleaseDecrement(t) ==
  /\ pc[t] = "rel_lock"
  /\ lock = NoThread
  /\ current_connections' = CounterAfterDiscard
  /\ pc' = [pc EXCEPT ![t] = "rel_close"]
  /\ last_op' = "other"
  /\ UNCHANGED <<poolvars, connection_queue, lock, status, conn, held, result,
                 discarded, faulty, callvars>>

\* try: connection.close() except: pass
ReleaseClose(t) ==
  /\ pc[t] = "rel_close"
  /\ status' = Close(status, conn[t])
  /\ conn' = [conn EXCEPT ![t] = NoConn]
  /\ ReleaseReturn(t)
  /\ \E close_ok \in BOOLEAN : last_op' = CloseErrorSwallowed(close_ok)
  /\ UNCHANGED <<poolvars, current_connections, connection_queue, lock,
                 held, result, discarded, faulty>>

\* ---- close_all_connections ----

\* with self.lock
CloseAllLock(t) ==
  /\ Constructed
  /\ pc[t] = "idle"
  /\ scope[t] = "none"
  /\ lock = NoThread
  /\ lock' = t
  /\ pc' = [pc EXCEPT ![t] = "drain"]
  /\ last_op' = "other"
  /\ UNCHANGED <<poolvars, current_connections, connection_queue, status,
                 conn, held, result, discarded, faulty, callvars>>

\* while not empty: get(block=False); close
CloseAllDrain(t) ==
  /\ pc[t] = "drain"
  /\ lock = t
  /\ connection_queue # <<>>
  /\ status' = Close(status, Head(connection_queue))
  /\ connection_queue' = Dequeue(connection_queue)
  /\ last_op' = "other"
  /\ UNCHANGED <<poolvars, current_connections, lock, pc, conn, held, result,
                 discarded, faulty, callvars>>

\* the counter after close_all_connections
CounterKept == current_connections

\* self.current_connections = 0
CounterReset == 0

\* self.current_connections = 0, leaving the lock
CloseAllReset(t) ==
  /\ pc[t] = "drain"
  /\ lock = t
  /\ connection_queue = <<>>
  /\ current_connections' = CounterReset
  /\ lock' = NoThread
  /\ pc' = [pc EXCEPT ![t] = "idle"]
  /\ last_op' = "closed_all"
  /\ UNCHANGED <<poolvars, connection_queue, status, conn, held, result,
                 discarded, faulty, callvars>>

\* ---- execute_update, through the connection() context manager ----

\* a statement, commit or rollback can succeed only on a session the server
\* still serves
CallOutcomes(c) == IF status[c] = "open" THEN BOOLEAN ELSE {FALSE}

\* variant: the handlers re-raise without calling conn.rollback()
OnStatementFailureNoRollback == "release"

\* `except ...: conn.rollback()`: a failed statement or commit enters a handler
\* that rolls back first
OnStatementFailure == "rollback"

\* variant: connection() without try/finally, an exception skips the release
OnExceptionNoFinally == "done"

\* `finally: self.release_connection(conn)`: an exception leaving the body of
\* `with self.connection()` runs the release
OnException == "release"

\* an exception raised by conn.rollback() inside the handler replaces the
\* UpdateError the handler was about to raise; the outer `except Exception`
\* wraps it as UpdateError("更新操作异常: <rollback error>")
RollbackFailureOutcome == "rollback_error"

\* execute_update is called: enter the try, call self.connection()
ExecStart(t) ==
  /\ Constructed
  /\ scope[t] = "done"
  /\ pc[t] = "idle"
  /\ scope' = [scope EXCEPT ![t] = "acquire"]
  /\ scope_conn' = [scope_conn EXCEPT ![t] = NoConn]
  /\ outcome' = [outcome EXCEPT ![t] = "pending"]
  /\ tx' = [tx EXCEPT ![t] = "none"]
  /\ releases' = [releases EXCEPT ![t] = 0]
  /\ last_op' = "other"
  /\ UNCHANGED <<poolvars, current_connections, connection_queue, lock,
                 status, pc, conn, held, result, discarded, faulty>>

\* the body of the with block: conn.cursor(), cursor.execute, conn.commit
ExecuteStatement(t) ==
  /\ scope[t] = "execute"
  /\ \E cursor_ok \in BOOLEAN :
     \E stmt_ok \in CallOutcomes(scope_conn[t]) :
     \E commit_ok \in CallOutcomes(scope_conn[t]) :
       IF ~cursor_ok
       THEN /\ outcome' = [outcome EXCEPT ![t] = "cursor_error"]
            /\ scope' = [scope EXCEPT ![t] = OnException]
            /\ tx' = tx
       ELSE IF stmt_ok /\ commit_ok
       THEN /\ outcome' = [outcome EXCEPT ![t] = "ok"]
            /\ scope' = [scope EXCEPT ![t] = "release"]
            /\ tx' = [tx EXCEPT ![t] = "commit"]
       ELSE /\ outcome' = [outcome EXCEPT ![t] = "statement_error"]
            /\ scope' = [scope EXCEPT ![t] = OnStatementFailure]
            /\ tx' = [tx EXCEPT ![t] = IF stmt_ok THEN "commit_failed" ELSE "none"]
  /\ last_op' = "other"
  /\ UNCHANGED <<poolvars, current_connections, connection_queue, lock,
                 status, pc, conn, held, result, discarded, faulty,
                 scope_conn, releases>>

\* the except handlers: conn.rollback(), then raise UpdateError
Rollback(t) ==
  /\ scope[t] = "rollback"
  /\ \E rollback_ok \in CallOutcomes(scope_conn[t]) :
       IF rollback_ok
       THEN /\ tx' = [tx EXCEPT ![t] = "rollback"]
            /\ outcome' = outcome
       ELSE /\ tx' = [tx EXCEPT ![t] = "rollback_failed"]
            /\ outcome' = [outcome EXCEPT ![t] = RollbackFailureOutcome]
  /\ scope' = [scope EXCEPT ![t] = OnException]
  /\ last_op' = "other"
  /\ UNCHANGED <<poolvars, current_connections, connection_queue, lock,
                 status, pc, conn, held, result, discarded, faulty,
                 scope_conn, releases>>

execute_update(t) ==
  \/ ExecStart(t)
  \/ ExecuteStatement(t)
  \/ Rollback(t)

\* ---- specifications ----

get_connection(t) ==
  \/ GetNoWait(t)
  \/ GetGrow(t)
  \/ GetWait(t)
  \/ GetTimeout(t)

release_connection(t) ==
  \/ \E c \in Conns : ReleaseProbe(t, c)
  \/ ReleasePut(t)
  \/ ReleaseDecrement(t)
  \/ ReleaseClose(t)

close_all_connections(t) ==
  \/ CloseAllLock(t)
  \/ CloseAllDrain(t)
  \/ CloseAllReset(t)

initialize_pool == InitCreate \/ InitPut

Next ==
  \/ initialize_pool
  \/ \E s \in Conns : Break(s)
  \/ \E t \in Threads : get_connection(t)
  \/ \E t \in Threads : release_connection(t)
  \/ \E t \in Threads : close_all_connections(t)

Spec == Init /\ [][Next]_vars

\* acquire and release only, no shutdown
NextAcquireRelease ==
  \/ initialize_pool
  \/ \E s \in Conns : Break(s)
  \/ \E t \in Threads : get_connection(t)
  \/ \E t \in Threads : release_connection(t)

SpecAcquireRelease == Init /\ [][NextAcquireRelease]_vars

\* the timed get of step 3 returns once a session is there or the timeout elapsed
FairSpec == Spec /\ \A t \in Threads : WF_vars(GetWait(t) \/ GetTimeout(t))

\* the scenario of a healthy backend: the factory always succeeds, no session
\* is dropped, no shutdown
InitScenario ==
  /\ InitPool
  /\ faulty = FALSE
  /\ scope = [t \in Threads |-> "none"]

\* (no session fails the probe there, so release never takes its discard branch)
NextScenario ==
  \/ initialize_pool
  \/ \E t \in Threads : get_connection(t)
  \/ \E t \in Threads : \E c \in Conns : ReleaseProbe(t, c)
  \/ \E t \in Threads : ReleasePut(t)

SpecScenario == InitScenario /\ [][NextScenario]_vars

\* every thread is a caller of execute_update; the pool is never shut down
InitExecute ==
  /\ InitPool
  /\ faulty = TRUE
  /\ scope = [t \in Threads |-> "done"]

NextExecute ==
  \/ initialize_pool
  \/ \E s \in Conns : Break(s)
  \/ \E t \in Threads : execute_update(t)
  \/ \E t \in Threads : get_connection(t)
  \/ \E t \in Threads : release_connection(t)

SpecExecute == InitExecute /\ [][NextExecute]_vars

\* ---- derived quantities ----

RECURSIVE SumHeld(_, _)
SumHeld(h, ts) ==
  IF ts = {} THEN 0
  ELSE LET t == CHOOSE x \in ts : TRUE
       IN Cardinality(h[t]) + SumHeld(h, ts \ {t})

\* sessions checked out by callers
CheckedOut(h) == SumHeld(h, Threads)

\* occurrences of session s in queue q
InQueue(q, s) == Cardinality({i \in 1..Len(q) : q[i] = s})

\* callers that have session s in hand (checked out, or still handing it back)
Owners(s) == {t \in Threads : s \in held[t] \/ conn[t] = s}

\* backend sessions created and not yet closed
OpenSessions == {s \in Conns : status[s] \in {"open", "broken"}}

\* no call is in progress
Quiescent == Constructed /\ \A t \in Threads : pc[t] = "idle"

\* ---- properties ----

\* C1: on a pool built with min_connections <= max_connections, the counter
\* current_connections never exceeds max_connections in any reachable state.
CounterWithinMax ==
  min_connections <= max_connections => current_connections <= max_connections

\* C1 witness: the pool is at max_connections and an acquire was refused growth
CounterAtMaxWitness ==
  /\ min_connections <= max_connections
  /\ current_connections = max_connections
  /\ \E t \in Threads : pc[t] = "wait"

\* C2: every session is in the hands of at most one caller and is not in the
\* idle queue while a caller has it.
ExclusiveOwnership ==
  \A s \in Conns : Cardinality(Owners(s)) + InQueue(connection_queue, s) <= 1

\* C2 witness: two callers have sessions checked out at the same time on a
\* pool at max_connections, the last get_connection having succeeded
TwoHoldersWitness ==
  \E t1, t2 \in Threads :
    /\ t1 # t2
    /\ held[t1] # {}
    /\ held[t2] # {}
    /\ result = "ok"
    /\ current_connections = max_connections

\* C3 (as claimed): once the pool is constructed, the backend sessions that are
\* open at the same time never number more than max_connections.
OpenSessionsWithinMax ==
  Constructed => Cardinality(OpenSessions) <= max_connections

\* C4 (as claimed): when no call is in progress, current_connections equals the
\* idle sessions plus the checked-out sessions.
CounterMatchesSessions ==
  Quiescent => current_connections = Len(connection_queue) + CheckedOut(held)

\* C5: an acquire waiting in step 3 always leaves the wait, and when it leaves
\* it with the idle queue empty it fails with PoolExhaustedError and the caller
\* obtains no session.
AcquireTimesOut ==
  /\ [][\A t \in Threads :
         (pc[t] = "wait" /\ connection_queue = <<>> /\ pc'[t] # "wait")
           => (result' = "PoolExhaustedError" /\ held'[t] = held[t])]_vars
  /\ \A t \in Threads : (pc[t] = "wait") ~> (pc[t] # "wait")

\* C5 witness: an acquire failed with PoolExhaustedError on a pool at
\* max_connections whose sessions are all checked out
PoolExhaustedWitness ==
  /\ result = "PoolExhaustedError"
  /\ ~discarded
  /\ Quiescent
  /\ current_connections = max_connections
  /\ connection_queue = <<>>
  /\ CheckedOut(held) = max_connections

\* the step is caller t's get_connection returning a replacement for the stale
\* session at the head of the idle queue
ReplacedStale(t) ==
  /\ pc[t] \in {"idle", "wait"}
  /\ connection_queue # <<>>
  /\ ~IsConnectionValid(Head(connection_queue))
  /\ current_connections - 1 < max_connections
  /\ pc'[t] = "idle"
  /\ held'[t] # held[t]

NoCapacityLost ==
  Quiescent => current_connections <= Len(connection_queue) + CheckedOut(held)

\* the step is caller t's blocking get obtaining a stale session whose
\* replacement the factory fails to create
WaitReplacementFailed(t) ==
  /\ pc[t] = "wait"
  /\ connection_queue # <<>>
  /\ ~IsConnectionValid(Head(connection_queue))
  /\ pc'[t] = "idle"
  /\ held'[t] = held[t]

\* C8 (as claimed): in step 3, a stale session whose replacement cannot be
\* created makes the acquire fail with ConnectionError, with
\* current_connections decremented for the discarded session.
WaitFailureIsConnectionError ==
  [][\A t \in Threads :
       WaitReplacementFailed(t) =>
         /\ result' = "ConnectionError"
         /\ current_connections' = current_connections - 1]_vars

\* C9 (as claimed): release never blocks: whenever a caller is at the put of
\* release_connection, the idle queue has room.
ReleaseNeverBlocks ==
  \A t \in Threads : pc[t] = "put" => ~QueueFull(connection_queue)

\* C10 (as claimed): current_connections is never negative.
CounterNonNegative == current_connections >= 0

\* C11 (as claimed): the idle queue never holds more sessions than
\* current_connections counts.
IdleWithinCounter == Len(connection_queue) <= current_connections

\* the step is the first step of a get_connection by caller t
AcquireStarts(t) ==
  /\ pc[t] = "idle"
  /\ \/ pc'[t] = "lock"
     \/ pc'[t] = "idle" /\ held'[t] # held[t]

\* the session put on the idle queue by the release that just completed
JustReleased == connection_queue[Len(connection_queue)]

\* C12 (as claimed): right after a release put a session that passes the
\* probe on the idle queue, a get_connection returns that same session
\* without calling the factory and without changing current_connections.
ReleasedIsAcquiredNext ==
  [][\A t \in Threads :
       (last_op = "released" /\ IsConnectionValid(JustReleased) /\ AcquireStarts(t))
         => /\ held'[t] = held[t] \cup {JustReleased}
            /\ status' = status
            /\ current_connections' = current_connections]_vars

\* C12 (amended): right after a release put a session on the idle queue, a
\* get_connection returns at once the session at the head of the queue, if
\* that one passes the probe, without calling the factory and without
\* changing current_connections; it is the released session when the queue
\* holds no other.
ReleasedMakesHeadAcquirable ==
  [][\A t \in Threads :
       (last_op = "released" /\ status[Head(connection_queue)] = "open"
          /\ AcquireStarts(t))
         => /\ held'[t] = held[t] \cup {Head(connection_queue)}
            /\ pc'[t] = "idle"
            /\ result' = "ok"
            /\ Len(connection_queue) = 1 => JustReleased \in held'[t]
            /\ connection_queue' = Tail(connection_queue)
            /\ status' = status
            /\ current_connections' = current_connections]_vars

\* C12 witness: a release just put a valid session behind another idle
\* session that passes the probe
ReleasedBehindIdleWitness ==
  /\ last_op = "released"
  /\ Len(connection_queue) >= 2
  /\ Head(connection_queue) # JustReleased
  /\ status[Head(connection_queue)] = "open"
  /\ status[JustReleased] = "open"

\* sessions a release_connection in progress has not yet put back or closed
InFlight == Cardinality({t \in Threads : conn[t] # NoConn})

\* C13: on a healthy backend, (a) a get_connection fails only by
\* PoolExhaustedError on timeout, with current_connections = max_connections,
\* the queue empty and all max_connections sessions out of the pool, so
\* max_connections successive acquires without a release all succeed; (b) a
\* session obtained in step 1 is the pre-warmed or released head of the queue,
\* reused without creation, and a session obtained in step 2 is newly created
\* with the counter incremented up to max_connections; (c) right after a
\* release, an acquire succeeds in its first step, without the timed wait.
AcquireUpToMaxThenExhausted ==
  [][\A t \in Threads :
       /\ (pc[t] # "idle" /\ pc'[t] = "idle" /\ held'[t] = held[t] /\ conn[t] = NoConn)
            => /\ pc[t] = "wait"
               /\ result' = "PoolExhaustedError"
               /\ current_connections = max_connections
               /\ connection_queue = <<>>
               /\ CheckedOut(held) + InFlight = max_connections
       /\ (pc[t] = "idle" /\ pc'[t] = "idle" /\ held'[t] # held[t])
            => /\ connection_queue # <<>>
               /\ held'[t] = held[t] \cup {Head(connection_queue)}
               /\ status' = status
               /\ current_connections' = current_connections
       /\ (pc[t] = "lock" /\ pc'[t] = "idle")
            => /\ \E n \in Conns : status[n] = "none" /\ status'[n] = "open"
                                   /\ held'[t] = held[t] \cup {n}
               /\ current_connections' = current_connections + 1
               /\ current_connections' <= max_connections
       /\ (last_op = "released" /\ AcquireStarts(t))
            => pc'[t] = "idle" /\ result' = "ok"]_vars

\* C13 witness: with 1 <= min_connections < max_connections, an acquire
\* failed with PoolExhaustedError while all sessions were out, and one of them
\* has just been released
ReleasedAfterExhaustedWitness ==
  /\ 1 <= min_connections
  /\ min_connections < max_connections
  /\ ~faulty
  /\ result = "PoolExhaustedError"
  /\ last_op = "released"
  /\ current_connections = max_connections
  /\ CheckedOut(held) = max_connections - 1
  /\ Len(connection_queue) = 1

\* no caller has a session checked out and no thread but t is inside a call
OnlyCaller(t) ==
  /\ CheckedOut(held) = 0
  /\ \A u \in Threads \ {t} : pc[u] = "idle"

\* C14: a close_all_connections that completes with no session checked out
\* and no other call in progress leaves the idle queue empty, the counter 0
\* and every session that was created closed; the next get_connection finds
\* nothing to reuse and, the factory succeeding, creates a session with the
\* counter becoming 1, as on a pool constructed empty.
ShutdownThenFreshAcquire ==
  [][\A t \in Threads :
       /\ (pc[t] = "drain" /\ pc'[t] = "idle" /\ OnlyCaller(t))
            => /\ connection_queue' = <<>>
               /\ current_connections' = 0
               /\ \A s \in Conns : status'[s] \in {"none", "closed"}
       /\ (last_op = "closed_all" /\ OnlyCaller(t) /\ AcquireStarts(t))
            => /\ pc'[t] = "lock"
               /\ current_connections' = 0
               /\ status' = status
       /\ (pc[t] = "lock" /\ current_connections = 0 /\ pc'[t] # "lock")
            => /\ pc'[t] = "idle"
               /\ result' = "ok" =>
                    /\ current_connections' = 1
                    /\ \E n \in Conns : /\ status[n] = "none"
                                        /\ status'[n] = "open"
                                        /\ held'[t] = held[t] \cup {n}
               /\ result' # "ok" =>
                    /\ result' = "ConnectionError"
                    /\ current_connections' = 0
                    /\ status' = status]_vars

\* C14 witness: a shutdown has just closed two idle, never acquired sessions
ShutdownClosedIdleWitness ==
  /\ last_op = "closed_all"
  /\ Quiescent
  /\ result = "none"
  /\ CheckedOut(held) = 0
  /\ current_connections = 0
  /\ connection_queue = <<>>
  /\ Cardinality({s \in Conns : status[s] = "closed"}) = 2
  /\ \A s \in Conns : status[s] \in {"none", "closed"}

\* thread t cannot take a step: it waits for room in the idle queue, or for
\* the lock held by another thread
Blocked(t) ==
  \/ pc[t] = "put" /\ QueueFull(connection_queue)
  \/ pc[t] \in {"lock", "rel_lock"} /\ lock # NoThread /\ lock # t

\* C15 (as claimed): no thread holds the lock while it is at the timed get or
\* at the put, and the threads are never all blocked on the lock or the queue.
NoLockAcrossBlockingNoDeadlock ==
  /\ \A t \in Threads : lock = t => pc[t] \notin {"wait", "put"}
  /\ ~(\A t \in Threads : Blocked(t))

\* C17: release_connection never raises: every release that leaves the put or
\* the close of a bad session returns to its caller, whether the close
\* succeeded or raised, and a session that failed the probe ends closed.
ReleaseReturnsNormally ==
  [][\A t \in Threads :
       (pc[t] \in {"put", "rel_close"} /\ pc'[t] # pc[t])
         => /\ pc'[t] = "idle"
            /\ last_op' \in {"released", "discarded", "discarded_close_failed"}
            /\ pc[t] = "rel_close" => status'[conn[t]] = "closed"]_vars

\* C17 witness: a release has just returned although closing the bad session
\* raised
CloseFailureSwallowedWitness ==
  /\ last_op = "discarded_close_failed"
  /\ \E s \in Conns : status[s] = "closed"

\* C18: a get_connection that finds the idle queue empty goes to step 2
\* changing nothing, and when step 2 is below max_connections and the factory
\* fails it raises ConnectionError with the counter, the queue and the
\* sessions unchanged.
GrowFailureIsConnectionError ==
  [][\A t \in Threads :
       /\ (connection_queue = <<>> /\ AcquireStarts(t))
            => /\ pc'[t] = "lock"
               /\ current_connections' = current_connections
               /\ connection_queue' = connection_queue
               /\ status' = status
       /\ (pc[t] = "lock" /\ CanGrow /\ pc'[t] = "idle" /\ held'[t] = held[t])
            => /\ result' = "ConnectionError"
               /\ current_connections' = current_connections
               /\ connection_queue' = connection_queue
               /\ status' = status]_vars

\* C18 witness: a get_connection on an empty pool below max_connections
\* failed with ConnectionError, no session having ever been discarded
GrowFailedWitness ==
  /\ result = "ConnectionError"
  /\ Quiescent
  /\ connection_queue = <<>>
  /\ current_connections < max_connections
  /\ \A s \in Conns : status[s] # "closed"

\* C16: connection() releases the session it acquired exactly once on every
\* exit of the with body, normal or by exception, never before the body has
\* ended, and makes no release when get_connection raised.
ScopedReleaseExactlyOnce ==
  \A t \in Threads :
    /\ scope[t] \in {"acquire", "execute", "rollback", "release"}
         => releases[t] = 0
    /\ scope[t] = "releasing"
         => releases[t] = 1 /\ scope_conn[t] # NoConn
    /\ (scope[t] = "done" /\ outcome[t] # "none")
         => /\ outcome[t] # "pending"
            /\ (outcome[t] = "acquire_error") <=> (scope_conn[t] = NoConn)
            /\ releases[t] = IF outcome[t] = "acquire_error" THEN 0 ELSE 1

\* C16 witness: one execute_update left the with body by an exception and
\* released once, another failed to acquire and released nothing
ScopedReleaseWitness ==
  \E t, u \in Threads :
    /\ scope[t] = "done" /\ outcome[t] = "statement_error" /\ releases[t] = 1
    /\ scope[u] = "done" /\ outcome[u] = "acquire_error" /\ releases[u] = 0

\* C19: execute_update that succeeded has committed; one whose statement or
\* commit failed has called rollback while it still held the session, before
\* the release, and ends in an UpdateError; once the call is over the thread
\* holds no session, as before the call.
ExecuteCommitsOrRollsBack ==
  \A t \in Threads :
    /\ scope[t] \in {"execute", "rollback"}
         => scope_conn[t] \in held[t] /\ releases[t] = 0
    /\ (scope[t] \in {"release", "releasing", "done"} /\ outcome[t] = "ok")
         => tx[t] = "commit"
    /\ (scope[t] \in {"release", "releasing", "done"}
          /\ outcome[t] \in {"statement_error", RollbackFailureOutcome})
         => tx[t] \in {"rollback", "rollback_failed"}
    /\ tx[t] = "commit" => outcome[t] = "ok"
    /\ scope[t] = "done" => held[t] = {} /\ pc[t] = "idle"

\* C19 witness: both outcomes side by side, a committed update and a failed
\* one that was rolled back, each with its session released
ExecuteBothOutcomesWitness ==
  \E t, u \in Threads :
    /\ scope[t] = "done" /\ outcome[t] = "ok" /\ tx[t] = "commit"
    /\ scope[u] = "done" /\ outcome[u] = "statement_error"
    /\ tx[u] = "rollback" /\ releases[u] = 1
    /\ held[t] = {} /\ held[u] = {}

\* C20: when the statement failed and the rollback failed too, the UpdateError
\* that reaches the caller of execute_update is the one reporting the
\* statement failure.
RollbackFailureNotPropagated ==
  \A t \in Threads :
    (scope[t] = "done" /\ tx[t] = "rollback_failed")
      => outcome[t] = "statement_error"

\* C21: release_connection on a session that fails the probe takes the discard
\* branch: it never puts the session on the idle queue, decrements
\* current_connections by exactly one while no other thread holds the lock,
\* and closes the session; none of its steps changes the idle queue.
DiscardOnRelease ==
  [][\A t \in Threads :
       /\ (pc[t] = "idle" /\ pc'[t] \in {"put", "rel_lock"}
             /\ ~IsConnectionValid(conn'[t]))
            => /\ pc'[t] = "rel_lock"
               /\ connection_queue' = connection_queue
               /\ current_connections' = current_connections
       /\ (pc[t] = "rel_lock" /\ pc'[t] # "rel_lock")
            => /\ lock = NoThread
               /\ pc'[t] = "rel_close"
               /\ current_connections' = current_connections - 1
               /\ connection_queue' = connection_queue
       /\ (pc[t] = "rel_close" /\ pc'[t] # "rel_close")
            => /\ status'[conn[t]] = "closed"
               /\ InQueue(connection_queue', conn[t]) = 0
               /\ connection_queue' = connection_queue
               /\ current_connections' = current_connections]_vars

\* C21 witness: a release has just discarded a bad session while another
\* session sits idle on the queue
DiscardedBesideIdleWitness ==
  /\ last_op = "discarded"
  /\ connection_queue # <<>>
  /\ \E s \in Conns : status[s] = "closed" /\ InQueue(connection_queue, s) = 0

WarmUpNeverBlocks ==
  /\ ~(init_conn # NoConn /\ QueueFull(connection_queue))
  /\ (result = "none" /\ \A t \in Threads : pc[t] = "idle")
       => /\ current_connections = Len(connection_queue)
          /\ current_connections <= max_connections

====
